---- MODULE Spec2Model ----
(***************************************************************************)
(* A model of the Simple Dashboard plugin (src/main.ts): the settings      *)
(* loader and its legacy migration, the goal/task store with its           *)
(* persistence requests, the dashboard view's render passes, the note and  *)
(* calendar queries and the daily note creation.                           *)
(*                                                                         *)
(* JavaScript strings are modelled as sequences of symbols, so that        *)
(* split(','), trim() and filter(Boolean) are computed and not assumed:    *)
(* "" is <<>>, "a, b" is <<"a", ",", " ", "b">>.  A folder or file name    *)
(* that is never split is one symbol: "Notes" is <<"Notes">>.              *)
(***************************************************************************)
EXTENDS Integers, Sequences, FiniteSets, Bags, TLC

VARIABLES
    loaded,      \* the plugin instance has run loadSettings (onload)
    settings,    \* DashboardPlugin.settings
    goals,       \* DashboardPlugin.goals
    tasks,       \* DashboardPlugin.tasks
    disk,        \* the host's persisted data blob (loadData / saveData)
    saves,       \* saveData requests in flight, each with its continuation
    viewOpen,    \* a leaf holds the DashboardView
    selectedDate,\* DashboardView.selectedDate, a timestamp
    renders,     \* the render() calls not yet collected, in the order they started
    container,   \* the children of the view's container: indices into renders
    now,         \* the clock moment() reads
    files,       \* the array vault.getMarkdownFiles() hands out
    bases,       \* app.bases: how search behaves, and the files of the vault
                 \* that are not markdown notes
    vault,       \* the paths vault.getAbstractFileByPath() knows, with their data
    feeds,       \* what ical.async.fromURL(url) yields for each url
    answer,      \* the last query made of the view or the plugin, and its result
    calls,       \* the createDailyNote calls in flight
    errors       \* the calls that ended by throwing

pluginVars == <<loaded, settings, goals, tasks>>
hostVars == <<disk, saves>>
viewVars == <<viewOpen, selectedDate, renders, container>>
envVars == <<now, files, bases, vault, feeds>>
callVars == <<answer, calls, errors>>
vars == <<loaded, settings, goals, tasks, disk, saves,
          viewOpen, selectedDate, renders, container,
          now, files, bases, vault, feeds, answer, calls, errors>>

(***************************************************************************)
(* Bounds of the model.                                                    *)
(***************************************************************************)
MaxStrLen == 2      \* longest text typed into a settings field
MaxPending == 2     \* saveData requests in flight at once
MaxItems == 2       \* longest goal list and task list
MaxRenders == 2     \* render() calls suspended at an await at once
MaxFiles == 2       \* markdown notes in the vault
MaxTime == 2        \* latest timestamp of a note, an event or a range
MaxUrlLen == 3      \* longest text of the calendar URLs setting
MaxCalls == 2       \* createDailyNote calls in flight at once
MaxDays == 3        \* latest day a daily note is named after

(***************************************************************************)
(* JavaScript values, as far as the code tells them apart.                 *)
(***************************************************************************)
Undefined == [t |-> "undefined"]
Null == [t |-> "null"]
Str(s) == [t |-> "string", v |-> s]
Arr(a) == [t |-> "array", v |-> a]
Obj(o) == [t |-> "object", v |-> o]

\* ToBoolean: undefined, null and "" are falsy; every array and object is truthy.
Truthy(x) ==
    CASE x.t = "undefined" -> FALSE
      [] x.t = "null" -> FALSE
      [] x.t = "string" -> x.v # <<>>
      [] OTHER -> TRUE

\* String.prototype.split(sep): "" splits into [""].
RECURSIVE Split(_, _)
Split(s, sep) ==
    IF \A i \in 1..Len(s) : s[i] # sep
    THEN <<s>>
    ELSE LET i == CHOOSE k \in 1..Len(s) : s[k] = sep /\ \A j \in 1..(k - 1) : s[j] # sep
         IN  <<SubSeq(s, 1, i - 1)>> \o Split(SubSeq(s, i + 1, Len(s)), sep)

\* String.prototype.trim(): drops the leading and the trailing white space.
RECURSIVE Trim(_)
Trim(s) ==
    IF s = <<>> THEN s
    ELSE IF Head(s) = " " THEN Trim(Tail(s))
    ELSE IF s[Len(s)] = " " THEN Trim(SubSeq(s, 1, Len(s) - 1))
    ELSE s

MapTrim(xs) == [i \in 1..Len(xs) |-> Trim(xs[i])]
NonEmptyStr(x) == x # <<>>
FilterBoolean(xs) == SelectSeq(xs, NonEmptyStr)

\* v.split(',').map(s => s.trim()).filter(Boolean)
SplitList(v) == FilterBoolean(MapTrim(Split(v, ",")))

RECURSIVE StringsOver(_, _)
StringsOver(alphabet, n) ==
    IF n = 0 THEN {<<>>}
    ELSE LET shorter == StringsOver(alphabet, n - 1)
         IN  shorter \cup {Append(s, c) : s \in shorter, c \in alphabet}

(***************************************************************************)
(* Settings.  A property that an object does not have reads as undefined.  *)
(***************************************************************************)
SettingsKeys == {"noteFolder", "noteFolders", "dailyNoteFolder", "calendarUrls"}

\* the empty object {} that Object.assign starts from
EmptyObject == [k \in SettingsKeys |-> Undefined]

DEFAULT_SETTINGS ==
    [noteFolder |-> Undefined,
     noteFolders |-> Arr(<< <<"Notes">> >>),
     dailyNoteFolder |-> Str(<<"Daily">>),
     calendarUrls |-> Str(<<>>)]

\* Object.assign(target, source): copies the own properties of source;
\* a source that is undefined or null is skipped.
ObjectAssign(target, source) ==
    IF source.t = "object"
    THEN [k \in SettingsKeys |-> IF source.v[k] # Undefined THEN source.v[k] ELSE target[k]]
    ELSE target

\* data?.settings, data?.goals, data?.tasks
DataField(data, f) == IF data.t = "object" THEN data.v[f] ELSE Undefined

\* x || []
OrEmptyList(x) == IF Truthy(x) THEN x.v ELSE <<>>

\* the backward-compatibility branch of loadSettings
MigrateNoteFolder(l) ==
    IF Truthy(l.noteFolder) /\ ~Truthy(l.noteFolders)
    THEN [l EXCEPT !.noteFolders = Arr(<<l.noteFolder.v>>)]
    ELSE l

LoadedSettings(data) ==
    MigrateNoteFolder(
        ObjectAssign(ObjectAssign(EmptyObject, Obj(DEFAULT_SETTINGS)),
                     DataField(data, "settings")))

\* the PluginData object saveSettings hands to saveData
PluginData(s, g, t) == Obj([settings |-> Obj(s), goals |-> Arr(g), tasks |-> Arr(t)])

(***************************************************************************)
(* The blobs the host may hold when the plugin starts.                     *)
(***************************************************************************)
Goal(text, done) == [text |-> text, done |-> done]

StoredSettings ==
    {Undefined, Null} \cup
    {Obj([noteFolder |-> nf, noteFolders |-> nfs, dailyNoteFolder |-> d,
          calendarUrls |-> Undefined]) :
        nf \in {Undefined, Str(<<>>), Str(<<"Old">>)},
        nfs \in {Undefined, Arr(<<>>), Arr(<< <<"A">> >>), Arr(<< <<"A">>, <<"B">> >>)},
        d \in {Undefined, Str(<<"Journal">>)}}

StoredLists == {Undefined, Arr(<<Goal(<<"a">>, FALSE)>>)}

StoredBlobs ==
    {Null} \cup
    {Obj([settings |-> s, goals |-> g, tasks |-> t]) :
        s \in StoredSettings, g \in StoredLists, t \in StoredLists}

(***************************************************************************)
(* Time.  A timestamp is an integer; a day is DayLen timestamps long, a    *)
(* week WeekLen days, a month MonthLen days.                               *)
(***************************************************************************)
DayLen == 2
WeekLen == 2
MonthLen == 4

DayOf(t) == t \div DayLen
\* startOf(unit) and endOf(unit) of a moment, for a unit of len days
StartOf(t, len) == (DayOf(t) - (DayOf(t) % len)) * DayLen
EndOf(t, len) == StartOf(t, len) + len * DayLen - 1

\* the decimal numeral of an integer, one symbol per digit
DigitSyms == <<"0", "1", "2", "3", "4", "5", "6", "7", "8", "9">>
RECURSIVE Numeral(_)
Numeral(n) ==
    IF n < 0 THEN <<"-">> \o Numeral(-n)
    ELSE IF n < 10 THEN <<DigitSyms[n + 1]>>
    ELSE Numeral(n \div 10) \o <<DigitSyms[(n % 10) + 1]>>

\* date.format('YYYY-MM-DD'): the day the timestamp lies in, as a string
FormatDate(t) == Numeral(DayOf(t))

\* moment().subtract(k, 'day')
SubtractDays(t, k) == t - k * DayLen

(***************************************************************************)
(* Notes: a TFile is its basename with stat.ctime and stat.mtime.          *)
(***************************************************************************)
\* Array.prototype.sort is stable: s ordered by ascending key[i], ties in place
SortStable(s, key) ==
    LET n == Len(s)
        pos(i) == 1 + Cardinality({j \in 1..n :
                        key[j] < key[i] \/ (key[j] = key[i] /\ j < i)})
    IN  [p \in 1..n |-> s[CHOOSE i \in 1..n : pos(i) = p]]

\* the sort with its comparator turned round: (a, b) => a.stat.mtime - b.stat.mtime
SortedByMtimeAscending(fs) == SortStable(fs, [i \in 1..Len(fs) |-> fs[i].mtime])

\* files.sort((a, b) => b.stat.mtime - a.stat.mtime): the array, sorted in place
SortedByMtime(fs) == SortStable(fs, [i \in 1..Len(fs) |-> 0 - fs[i].mtime])

\* getLastModified: the value it returns; fs is the array the host handed out
getLastModified(fs) ==
    LET sorted == SortedByMtime(fs)
    IN  IF Len(sorted) # 0 THEN [t |-> "number", v |-> sorted[1].mtime] ELSE Null

\* the array after getLastModified: sort works in place, so the host's own
\* array is reordered when getMarkdownFiles hands it out and not a copy of it
FilesAfterSort(fs) == {fs, SortedByMtime(fs)}

InRange(x, start, end) == x >= start /\ x <= end

\* vault.filter(f => f.stat.ctime >= start && f.stat.ctime <= end)
FilterByCtime(fs, start, end) ==
    LET Hit(f) == InRange(f.ctime, start, end) IN SelectSeq(fs, Hit)

Reverse(s) == [i \in 1..Len(s) |-> s[Len(s) + 1 - i]]

\* bases.search(`file.ctime >= ${start} && file.ctime <= ${end}`): the query
\* names no file type, so the host evaluates it over every file of the vault,
\* the notes fs and the other files b.others, and lists the hits in an order
\* of its own
BasesSearch(fs, b, start, end) ==
    LET Hit(f) == f.ctime >= start /\ f.ctime <= end
        hits == SelectSeq(fs \o b.others, Hit)
    IN  IF b.mode = "okReversed" THEN Reverse(hits) ELSE hits

BasesModes == {"absent", "throws", "ok", "okReversed"}
Bases(mode, others) == [mode |-> mode, others |-> others]

\* fs is the array getMarkdownFiles() returned before the search
getNotesForRange(fs, b, start, end) ==
    LET viaBases == IF b.mode \in {"absent", "throws"} THEN <<>>
                    ELSE BasesSearch(fs, b, start, end)
    IN  IF Len(viaBases) = 0 THEN FilterByCtime(fs, start, end) ELSE viaBases

(***************************************************************************)
(* Calendar feeds.                                                         *)
(***************************************************************************)
\* the loop with its try around the whole of it: the first fetch that throws
\* ends the collection
RECURSIVE CollectEventsAbort(_, _, _, _)
CollectEventsAbort(fd, urls, start, end) ==
    IF urls = <<>> THEN <<>>
    ELSE LET got == IF Head(urls) \in DOMAIN fd THEN fd[Head(urls)]
                    ELSE [ok |-> FALSE, data |-> <<>>]
         IN  IF got.ok
             THEN (LET Hit(ev) == ev.type = "VEVENT" /\ ev.start >= start /\ ev.start <= end
                       hits == SelectSeq(got.data, Hit)
                   IN  [i \in 1..Len(hits) |->
                           [summary |-> IF hits[i].summary.t = "string"
                                        THEN hits[i].summary.v ELSE <<>>,
                            start |-> hits[i].start]])
                  \o CollectEventsAbort(fd, Tail(urls), start, end)
             ELSE <<>>

\* ical.async.fromURL(url): a url the host cannot reach fails
FromURL(fd, url) == IF url \in DOMAIN fd THEN fd[url] ELSE [ok |-> FALSE, data |-> <<>>]

\* the events of one parsed feed that the loop pushes
PushedEvents(data, start, end) ==
    LET Hit(ev) == ev.type = "VEVENT" /\ InRange(ev.start, start, end)
        hits == SelectSeq(data, Hit)
    IN  [i \in 1..Len(hits) |->
            [summary |-> IF Truthy(hits[i].summary) THEN hits[i].summary.v ELSE <<>>,
             start |-> hits[i].start]]

\* the for loop over the urls: a fetch that throws is caught and adds nothing
RECURSIVE CollectEvents(_, _, _, _)
CollectEvents(fd, urls, start, end) ==
    IF urls = <<>> THEN <<>>
    ELSE LET got == FromURL(fd, Head(urls))
         IN  (IF got.ok THEN PushedEvents(got.data, start, end) ELSE <<>>)
             \o CollectEvents(fd, Tail(urls), start, end)

getEventsForRange(fd, calendarUrls, start, end) ==
    LET urls == SplitList(calendarUrls)
        events == CollectEvents(fd, urls, start, end)
    IN  SortStable(events, [i \in 1..Len(events) |-> events[i].start])

(***************************************************************************)
(* The vault's paths.                                                      *)
(***************************************************************************)
getAbstractFileByPath(v, path) == \E e \in v : e.path = path

\* `${folder}/${name}.md`
NotePath(folder, name) == folder \o <<"/">> \o name \o <<".md">>

\* the loop stepping back by streak timestamps and not by streak days
RECURSIVE StreakFromMs(_, _, _, _)
StreakFromMs(v, folder, t, streak) ==
    IF \E e \in v : e.path = folder \o <<"/">> \o Numeral((t - streak) \div DayLen) \o <<".md">>
    THEN StreakFromMs(v, folder, t, streak + 1)
    ELSE streak

RECURSIVE StreakFrom(_, _, _, _)
StreakFrom(v, folder, t, streak) ==
    IF getAbstractFileByPath(v, NotePath(folder, FormatDate(SubtractDays(t, streak))))
    THEN StreakFrom(v, folder, t, streak + 1)
    ELSE streak

calculateDailyStreak(v, s, t) == StreakFrom(v, s.dailyNoteFolder.v, t, 0)

(***************************************************************************)
(* DashboardView.render.  A call runs to its first await and is resumed    *)
(* once per await: today's notes, the week's, the month's, the streak, the *)
(* events.  Each call builds its own grid; container holds the grids that  *)
(* are attached.  A call that has ended and whose grid is detached is      *)
(* dropped from renders.                                                   *)
(***************************************************************************)
Names(fs) == [i \in 1..Len(fs) |-> fs[i].name]

\* the rows of a goal or task list: forEach((g, i) => ...), each row's checkbox
\* and remove button closing over its index i
Rows(list) == [k \in 1..Len(list) |-> [i |-> k - 1, text |-> list[k].text, done |-> list[k].done]]

\* the grid as render() creates it: the date input, the time, the notes header
\* and the "Last note" line
NewGrid(date, last) ==
    [n |-> 0, date |-> date, last |-> last, today |-> <<>>, week |-> <<>>,
     month |-> <<>>, stats |-> <<>>, streak |-> <<>>, goals |-> <<>>,
     tasks |-> <<>>, events |-> <<>>]

InFlight == Cardinality({k \in 1..Len(renders) : renders[k].pc # "done"})

NotDone(r) == r.pc # "done"

\* the grid in the container when the call is resumed
GridOnShow(k) == container[Len(container)]

\* the grid a resumed render() call writes to: its own const grid
GridOf(k) == k

\* render(), up to its first await; date is this.selectedDate
render(date) ==
    /\ files' \in FilesAfterSort(files)
    /\ LET running == SelectSeq(renders, NotDone)
           call == [pc |-> "today",
                    pending |-> getNotesForRange(files', bases, StartOf(date, 1), EndOf(date, 1)),
                    todayNotes |-> <<>>, weekNotes |-> <<>>, monthNotes |-> <<>>,
                    grid |-> NewGrid(FormatDate(date), getLastModified(files))]
       IN  /\ renders' = Append(running, call)
           /\ container' = <<Len(running) + 1>>

NoRender == UNCHANGED <<renders, container, files>>

\* resumed with today's notes: lists them, asks for the week's
renderToday(k) ==
    /\ k \in 1..Len(renders)
    /\ renders[k].pc = "today"
    /\ renders' = [renders EXCEPT
            ![k].pc = "week",
            ![k].todayNotes = renders[k].pending,
            ![k].pending = getNotesForRange(files, bases, StartOf(selectedDate, WeekLen),
                                            EndOf(selectedDate, WeekLen)),
            ![GridOf(k)].grid = [@ EXCEPT !.n = @ + 1, !.today = Names(renders[k].pending)]]
    /\ UNCHANGED <<pluginVars, hostVars, viewOpen, selectedDate, container, envVars, callVars>>

\* resumed with the week's notes: lists them, asks for the month's
renderWeek(k) ==
    /\ k \in 1..Len(renders)
    /\ renders[k].pc = "week"
    /\ renders' = [renders EXCEPT
            ![k].pc = "month",
            ![k].weekNotes = renders[k].pending,
            ![k].pending = getNotesForRange(files, bases, StartOf(selectedDate, MonthLen),
                                            EndOf(selectedDate, MonthLen)),
            ![GridOf(k)].grid = [@ EXCEPT !.n = @ + 1, !.week = Names(renders[k].pending)]]
    /\ UNCHANGED <<pluginVars, hostVars, viewOpen, selectedDate, container, envVars, callVars>>

\* resumed with the month's notes: lists them, writes the counts, asks for the streak
renderMonth(k) ==
    /\ k \in 1..Len(renders)
    /\ renders[k].pc = "month"
    /\ renders' = [renders EXCEPT
            ![k].pc = "streak",
            ![k].monthNotes = renders[k].pending,
            ![k].pending = <<[streak |-> calculateDailyStreak(vault, settings, now)]>>,
            ![GridOf(k)].grid = [@ EXCEPT !.n = @ + 1, !.month = Names(renders[k].pending),
                                    !.stats = <<Len(renders[k].todayNotes),
                                                Len(renders[k].weekNotes),
                                                Len(renders[k].pending)>>]]
    /\ UNCHANGED <<pluginVars, hostVars, viewOpen, selectedDate, container, envVars, callVars>>

\* resumed with the streak: writes it, the goal rows and the task rows, asks for the events
renderGoals(k) ==
    /\ k \in 1..Len(renders)
    /\ renders[k].pc = "streak"
    /\ renders' = [renders EXCEPT
            ![k].pc = "events",
            ![k].pending = getEventsForRange(feeds, settings.calendarUrls.v,
                                             StartOf(selectedDate, WeekLen),
                                             EndOf(selectedDate, WeekLen)),
            ![GridOf(k)].grid = [@ EXCEPT !.n = @ + 1, !.streak = renders[k].pending,
                                    !.goals = Rows(goals), !.tasks = Rows(tasks)]]
    /\ UNCHANGED <<pluginVars, hostVars, viewOpen, selectedDate, container, envVars, callVars>>

\* s without its k-th element
Without(s, k) == [j \in 1..(Len(s) - 1) |-> IF j < k THEN s[j] ELSE s[j + 1]]

\* resumed with the events: lists them and ends
renderEvents(k) ==
    /\ k \in 1..Len(renders)
    /\ renders[k].pc = "events"
    /\ LET after == [renders EXCEPT
                ![k].pc = "done",
                ![k].pending = <<>>,
                ![GridOf(k)].grid = [@ EXCEPT !.n = @ + 1, !.events = renders[k].pending]]
           attached == \E c \in 1..Len(container) : container[c] = k
       IN  IF attached
           THEN renders' = after /\ container' = container
           ELSE /\ renders' = Without(after, k)
                /\ container' = [c \in 1..Len(container) |->
                                    IF container[c] > k THEN container[c] - 1 ELSE container[c]]
    /\ UNCHANGED <<pluginVars, hostVars, viewOpen, selectedDate, envVars, callVars>>

\* what the view shows: the grids in the container
Displayed == [c \in 1..Len(container) |-> renders[container[c]].grid]

\* onOpen, reached from activateView when no leaf holds the view
onOpen ==
    /\ loaded
    /\ ~viewOpen
    /\ viewOpen' = TRUE
    /\ selectedDate' = now
    /\ render(selectedDate')
    /\ UNCHANGED <<pluginVars, hostVars, now, bases, vault, feeds, callVars>>

\* dateInput.onchange of the grid on show; value is the day typed in
dateInputOnchange(day) ==
    /\ viewOpen
    /\ container # <<>>
    /\ selectedDate' = day * DayLen
    /\ render(selectedDate')
    /\ UNCHANGED <<pluginVars, hostVars, viewOpen, now, bases, vault, feeds, callVars>>

\* refreshView: render() on every leaf of the view type
refreshView == IF viewOpen THEN render(selectedDate) ELSE NoRender

(***************************************************************************)
(* DashboardPlugin: loading and saving.                                    *)
(***************************************************************************)
\* a newly constructed plugin instance: settings unassigned, empty lists
NoSettings == EmptyObject

loadSettings ==
    /\ ~loaded
    /\ loaded' = TRUE
    /\ settings' = LoadedSettings(disk)
    /\ goals' = OrEmptyList(DataField(disk, "goals"))
    /\ tasks' = OrEmptyList(DataField(disk, "tasks"))
    /\ UNCHANGED <<hostVars, viewVars, envVars, callVars>>

\* saveSettings run before the caller's change of the lists
saveSettingsEarly(s, g, t, cont) ==
    saves' = Append(saves, [blob |-> PluginData(settings, goals, tasks), cont |-> cont])

\* saveSettings, called with the state s, g, t; cont is what the caller does
\* once the awaited saveData has resolved
saveSettings(s, g, t, cont) ==
    saves' = Append(saves, [blob |-> PluginData(s, g, t), cont |-> cont])

\* the host completes a saveData request: the awaiting handler goes on
saveDataResolved(i) ==
    /\ i \in 1..Len(saves)
    /\ disk' = saves[i].blob
    /\ saves' = Without(saves, i)
    /\ IF saves[i].cont = "refreshView" THEN refreshView ELSE NoRender
    /\ UNCHANGED <<pluginVars, viewOpen, selectedDate, now, bases, vault, feeds, callVars>>

(***************************************************************************)
(* The goal and task lists.  An index is a JavaScript index, from 0.       *)
(***************************************************************************)
Max(a, b) == IF a > b THEN a ELSE b
Min(a, b) == IF a < b THEN a ELSE b

\* list[index], undefined outside the list
At(list, index) == IF index \in 0..(Len(list) - 1) THEN Obj(list[index + 1]) ELSE Undefined

\* list.splice(start, deleteCount): the list that is left
Splice(list, start, deleteCount) ==
    LET len == Len(list)
        from == IF start < 0 THEN Max(len + start, 0) ELSE Min(start, len)
        count == Min(Max(deleteCount, 0), len - from)
    IN  [j \in 1..(len - count) |-> IF j <= from THEN list[j] ELSE list[j + count]]

\* window.prompt: null when cancelled, else the text typed
addGoal(text) ==
    /\ loaded
    /\ IF Truthy(text)
       THEN /\ goals' = Append(goals, Goal(text.v, FALSE))
            /\ saveSettings(settings, goals', tasks, "refreshView")
       ELSE UNCHANGED <<goals, saves>>
    /\ UNCHANGED <<loaded, settings, tasks, disk, viewVars, envVars, callVars>>

\* toggleGoal without its early return
toggleGoalNoReturn(index) ==
    /\ loaded
    /\ goals' = IF Truthy(At(goals, index)) THEN [goals EXCEPT ![index + 1].done = ~@] ELSE goals
    /\ saveSettings(settings, goals', tasks, "refreshView")
    /\ UNCHANGED <<loaded, settings, tasks, disk, viewVars, envVars, callVars>>

toggleGoal(index) ==
    /\ loaded
    /\ IF Truthy(At(goals, index))
       THEN /\ goals' = [goals EXCEPT ![index + 1].done = ~@]
            /\ saveSettings(settings, goals', tasks, "refreshView")
       ELSE UNCHANGED <<goals, saves>>
    /\ UNCHANGED <<loaded, settings, tasks, disk, viewVars, envVars, callVars>>

deleteGoal(index) ==
    /\ loaded
    /\ goals' = Splice(goals, index, 1)
    /\ saveSettings(settings, goals', tasks, "refreshView")
    /\ UNCHANGED <<loaded, settings, tasks, disk, viewVars, envVars, callVars>>

addTask(text) ==
    /\ loaded
    /\ IF Truthy(text)
       THEN /\ tasks' = Append(tasks, Goal(text.v, FALSE))
            /\ saveSettings(settings, goals, tasks', "refreshView")
       ELSE UNCHANGED <<tasks, saves>>
    /\ UNCHANGED <<loaded, settings, goals, disk, viewVars, envVars, callVars>>

toggleTask(index) ==
    /\ loaded
    /\ IF Truthy(At(tasks, index))
       THEN /\ tasks' = [tasks EXCEPT ![index + 1].done = ~@]
            /\ saveSettings(settings, goals, tasks', "refreshView")
       ELSE UNCHANGED <<tasks, saves>>
    /\ UNCHANGED <<loaded, settings, goals, disk, viewVars, envVars, callVars>>

deleteTask(index) ==
    /\ loaded
    /\ tasks' = Splice(tasks, index, 1)
    /\ saveSettings(settings, goals, tasks', "refreshView")
    /\ UNCHANGED <<loaded, settings, goals, disk, viewVars, envVars, callVars>>

\* the host disables the plugin and enables it again: a new instance.
\* Restarts with a saveData request still in flight are left out of the model.
onunload ==
    /\ loaded
    /\ ~viewOpen
    /\ saves = <<>>
    /\ loaded' = FALSE
    /\ settings' = NoSettings
    /\ goals' = <<>>
    /\ tasks' = <<>>
    /\ UNCHANGED <<hostVars, viewVars, envVars, callVars>>

(***************************************************************************)
(* DashboardSettingTab: the three onChange handlers.                       *)
(***************************************************************************)
SettingTexts == StringsOver({"A", ",", " "}, MaxStrLen)

onChangeNoteFolders(v) ==
    /\ loaded
    /\ settings' = [settings EXCEPT !.noteFolders = Arr(SplitList(v))]
    /\ saveSettings(settings', goals, tasks, "none")
    /\ UNCHANGED <<loaded, goals, tasks, disk, viewVars, envVars, callVars>>

onChangeDailyNoteFolder(v) ==
    /\ loaded
    /\ settings' = [settings EXCEPT !.dailyNoteFolder = Str(v)]
    /\ saveSettings(settings', goals, tasks, "none")
    /\ UNCHANGED <<loaded, goals, tasks, disk, viewVars, envVars, callVars>>

onChangeCalendarUrls(v) ==
    /\ loaded
    /\ settings' = [settings EXCEPT !.calendarUrls = Str(v)]
    /\ saveSettings(settings', goals, tasks, "none")
    /\ UNCHANGED <<loaded, goals, tasks, disk, viewVars, envVars, callVars>>

(***************************************************************************)
(* The specifications.  The guards that keep a model finite stand in the   *)
(* next-state relations, not in the handlers: a handler runs only while    *)
(* the lists, the saveData requests in flight and the suspended render()   *)
(* calls are within the bounds.                                            *)
(***************************************************************************)
\* n is the number of saveData requests that may be in flight
RoomToSave(n) == Len(saves) < n
RoomToAdd(list, text, n) == Truthy(text) => (Len(list) < MaxItems /\ RoomToSave(n))
RoomToToggle(list, index, n) == Truthy(At(list, index)) => RoomToSave(n)
\* the number of render() calls that may be suspended when request i resolves
RoomToRefresh(i, n) ==
    (i \in 1..Len(saves) /\ saves[i].cont = "refreshView" /\ viewOpen) => InFlight < n

NoView ==
    /\ viewOpen = FALSE
    /\ selectedDate = 0
    /\ renders = <<>>
    /\ container = <<>>

File(name, ctime, mtime) == [name |-> name, ctime |-> ctime, mtime |-> mtime]
Entry(path, folder, data) == [path |-> path, folder |-> folder, data |-> data]
VEvent(type, summary, start) == [type |-> type, summary |-> summary, start |-> start]

\* a small vault: three notes, the daily notes of day 1 and day 2, one feed
\* that answers
FixedEnv ==
    /\ now = 2 * DayLen
    /\ files = <<File("n2", 2 * DayLen, 5), File("n3", 2 * DayLen + 1, 3), File("n1", 0, 1)>>
    /\ bases = Bases("absent", <<>>)
    /\ vault = {Entry(<<"Daily">>, TRUE, <<>>),
                Entry(NotePath(<<"Daily">>, Numeral(2)), FALSE, <<"#">>),
                Entry(NotePath(<<"Daily">>, Numeral(1)), FALSE, <<"#">>)}
    /\ feeds = (<<"A">> :> [ok |-> TRUE,
                            data |-> <<VEvent("VEVENT", Str(<<"x">>), 2 * DayLen + 1),
                                       VEvent("VTIMEZONE", Undefined, 0),
                                       VEvent("VEVENT", Undefined, 2 * DayLen)>>])

NoAnswer == [op |-> "none", start |-> 0, end |-> 0, vault |-> <<>>, result |-> <<>>]

NoCalls ==
    /\ answer = NoAnswer
    /\ calls = <<>>
    /\ errors = {}

Unloaded ==
    /\ loaded = FALSE
    /\ settings = NoSettings
    /\ goals = <<>>
    /\ tasks = <<>>
    /\ saves = <<>>

(***************************************************************************)
(* SpecLoad: the plugin starts on any stored blob, the user edits the      *)
(* settings, the host restarts the plugin.                                 *)
(***************************************************************************)
InitLoad == Unloaded /\ disk \in StoredBlobs /\ NoView /\ FixedEnv /\ NoCalls

NextLoad ==
    \/ loadSettings
    \/ RoomToSave(MaxPending) /\ \E v \in SettingTexts : onChangeNoteFolders(v)
    \/ RoomToSave(MaxPending) /\ onChangeDailyNoteFolder(<<"Journal">>)
    \/ RoomToSave(MaxPending) /\ onChangeCalendarUrls(<<"A">>)
    \/ \E i \in 1..MaxPending : saveDataResolved(i)
    \/ onunload

SpecLoad == InitLoad /\ [][NextLoad]_vars

(***************************************************************************)
(* SpecStore: the goal and task lists as the commands and any caller of    *)
(* the plugin's methods drive them, with no view open and one saveData     *)
(* request in flight at a time.                                            *)
(***************************************************************************)
PromptTexts == {Null, Str(<<>>), Str(<<" ">>), Str(<<"a">>)}
Indices == (0 - MaxItems)..(MaxItems + 3)

StoreBlobs ==
    {Null,
     Obj([settings |-> Undefined, goals |-> Arr(<<Goal(<<"a">>, FALSE)>>),
          tasks |-> Undefined])}

InitStore == Unloaded /\ disk \in StoreBlobs /\ NoView /\ FixedEnv /\ NoCalls

NextStore ==
    \/ loadSettings
    \/ \E text \in PromptTexts : RoomToAdd(goals, text, 1) /\ addGoal(text)
    \/ \E index \in Indices : RoomToToggle(goals, index, 1) /\ toggleGoal(index)
    \/ \E index \in Indices : RoomToSave(1) /\ deleteGoal(index)
    \/ \E text \in {Null, Str(<<"c">>)} : RoomToAdd(tasks, text, 1) /\ addTask(text)
    \/ \E index \in Indices : RoomToToggle(tasks, index, 1) /\ toggleTask(index)
    \/ \E index \in Indices : RoomToSave(1) /\ deleteTask(index)
    \/ saveDataResolved(1)

SpecStore == InitStore /\ [][NextStore]_vars

(***************************************************************************)
(* Spec: the plugin with its view.  The user adds goals and tasks and uses *)
(* the checkboxes and remove buttons of the grid on show, while saveData   *)
(* requests and a render() call are in flight.  The saveData requests      *)
(* resolve in the order they were made, and a refresh waits for the        *)
(* render() call before it to end.                                         *)
(***************************************************************************)
ViewBlobs ==
    {Obj([settings |-> Obj([EmptyObject EXCEPT !.calendarUrls = Str(<<"A", ",", " ", "B">>)]),
          goals |-> Arr(<<Goal(<<"a">>, FALSE)>>),
          tasks |-> Arr(<<Goal(<<"c">>, FALSE)>>)])}

\* the indices the checkboxes and remove buttons on show close over
ShownIndices(section) ==
    UNION {{renders[container[c]].grid[section][r].i :
                r \in 1..Len(renders[container[c]].grid[section])} :
           c \in 1..Len(container)}

Init == Unloaded /\ disk \in ViewBlobs /\ NoView /\ FixedEnv /\ NoCalls

Next ==
    \/ loadSettings
    \/ onOpen
    \/ \E text \in {Null, Str(<<"b">>)} : RoomToAdd(goals, text, MaxPending) /\ addGoal(text)
    \/ \E index \in ShownIndices("goals") : RoomToToggle(goals, index, MaxPending) /\ toggleGoal(index)
    \/ \E index \in ShownIndices("goals") : RoomToSave(MaxPending) /\ deleteGoal(index)
    \/ RoomToAdd(tasks, Null, MaxPending) /\ addTask(Null)
    \/ \E index \in ShownIndices("tasks") : RoomToToggle(tasks, index, MaxPending) /\ toggleTask(index)
    \/ \E index \in ShownIndices("tasks") : RoomToSave(MaxPending) /\ deleteTask(index)
    \/ RoomToRefresh(1, 1) /\ saveDataResolved(1)
    \/ \E k \in 1..(MaxRenders + 1) : renderToday(k)
    \/ \E k \in 1..(MaxRenders + 1) : renderWeek(k)
    \/ \E k \in 1..(MaxRenders + 1) : renderMonth(k)
    \/ \E k \in 1..(MaxRenders + 1) : renderGoals(k)
    \/ \E k \in 1..(MaxRenders + 1) : renderEvents(k)

Spec == Init /\ [][Next]_vars

(***************************************************************************)
(* SpecRender: render() calls that overlap.  The user changes the date and *)
(* adds goals while earlier render() calls are suspended.                  *)
(***************************************************************************)
\* the days typed into the date input
InputDays == {1, 2}

NextRender ==
    \/ loadSettings
    \/ onOpen
    \/ \E day \in InputDays : InFlight < MaxRenders /\ dateInputOnchange(day)
    \/ RoomToAdd(goals, Str(<<"b">>), MaxPending) /\ addGoal(Str(<<"b">>))
    \/ \E i \in 1..MaxPending : RoomToRefresh(i, MaxRenders) /\ saveDataResolved(i)
    \/ \E k \in 1..(MaxRenders + 1) : renderToday(k)
    \/ \E k \in 1..(MaxRenders + 1) : renderWeek(k)
    \/ \E k \in 1..(MaxRenders + 1) : renderMonth(k)
    \/ \E k \in 1..(MaxRenders + 1) : renderGoals(k)
    \/ \E k \in 1..(MaxRenders + 1) : renderEvents(k)

SpecRender == Init /\ [][NextRender]_vars

(***************************************************************************)
(* DashboardPlugin.createDailyNote.  A call runs to an await of the host   *)
(* (createFolder, create, openFile) and is resumed when the host has       *)
(* answered.  The await of an ensureFolder that returned at once resumes   *)
(* in the same task, before any other handler can run.  The host registers *)
(* a folder or a file when the request completes; a request that completes *)
(* on a path registered in the meantime is rejected, or writes over it.    *)
(***************************************************************************)
\* `# ${str}`
NoteData(str) == <<"#", " ">> \o str

Call(str, folder) ==
    [pc |-> "start", str |-> str, folder |-> folder, current |-> <<>>, parts |-> <<>>,
     path |-> NotePath(folder, str)]

\* createDailyNote from the end of ensureFolder to its next await
checkPath(v, c) ==
    IF ~getAbstractFileByPath(v, c.path)
    THEN [c EXCEPT !.pc = "create"]
    ELSE [c EXCEPT !.pc = "openFile"]

\* the loop of ensureFolder, up to the createFolder it awaits
RECURSIVE ensureLoop(_, _, _, _)
ensureLoop(v, c, current, parts) ==
    IF parts = <<>> THEN checkPath(v, c)
    ELSE LET cur == IF current # <<>> THEN current \o <<"/">> \o Head(parts)
                    ELSE Head(parts)
         IN  IF ~getAbstractFileByPath(v, cur)
             THEN [c EXCEPT !.pc = "createFolder", !.current = cur, !.parts = Tail(parts)]
             ELSE ensureLoop(v, c, cur, Tail(parts))

ensureFolder(v, c) ==
    IF getAbstractFileByPath(v, c.folder) THEN checkPath(v, c)
    ELSE ensureLoop(v, c, <<>>, Split(c.folder, "/"))

\* the command, the dashboard's button or any caller starts a call
createDailyNote(t) ==
    /\ loaded
    /\ calls' = Append(calls, ensureFolder(vault, Call(FormatDate(t), settings.dailyNoteFolder.v)))
    /\ UNCHANGED <<pluginVars, hostVars, viewVars, envVars, answer, errors>>

Outcomes == {"rejects", "writes"}

\* the call k ends with the host's rejection thrown out of its await
Thrown(k) ==
    /\ errors' = errors \cup {[path |-> calls[k].path, at |-> calls[k].pc]}
    /\ calls' = Without(calls, k)
    /\ UNCHANGED vault

\* the host completes the createFolder that call k awaits
createFolderResolved(k, outcome) ==
    /\ k \in 1..Len(calls)
    /\ calls[k].pc = "createFolder"
    /\ IF getAbstractFileByPath(vault, calls[k].current) /\ outcome = "rejects"
       THEN Thrown(k)
       ELSE /\ vault' = IF getAbstractFileByPath(vault, calls[k].current) THEN vault
                        ELSE vault \cup {Entry(calls[k].current, TRUE, <<>>)}
            /\ calls' = [calls EXCEPT
                            ![k] = ensureLoop(vault', calls[k], calls[k].current, calls[k].parts)]
            /\ UNCHANGED errors
    /\ UNCHANGED <<pluginVars, hostVars, viewVars, now, files, bases, feeds, answer>>

\* the host completes the create that call k awaits; the call looks the file
\* up and opens it
createResolved(k, outcome) ==
    /\ k \in 1..Len(calls)
    /\ calls[k].pc = "create"
    /\ IF getAbstractFileByPath(vault, calls[k].path) /\ outcome = "rejects"
       THEN Thrown(k)
       ELSE /\ vault' = {e \in vault : e.path # calls[k].path}
                            \cup {Entry(calls[k].path, FALSE, NoteData(calls[k].str))}
            /\ calls' = [calls EXCEPT ![k].pc = "openFile"]
            /\ UNCHANGED errors
    /\ UNCHANGED <<pluginVars, hostVars, viewVars, now, files, bases, feeds, answer>>

\* the host has opened the file in a leaf: the call ends
openFileResolved(k) ==
    /\ k \in 1..Len(calls)
    /\ calls[k].pc = "openFile"
    /\ calls' = Without(calls, k)
    /\ UNCHANGED <<pluginVars, hostVars, viewVars, envVars, answer, errors>>

\* the user types into a note
modifyNote(e) ==
    /\ e \in vault
    /\ ~e.folder
    /\ e.data # <<"mine">>
    /\ vault' = (vault \ {e}) \cup {Entry(e.path, FALSE, <<"mine">>)}
    /\ UNCHANGED <<pluginVars, hostVars, viewVars, now, files, bases, feeds, callVars>>

(***************************************************************************)
(* The queries of the view, called on their own.                           *)
(***************************************************************************)
\* the plugin after onload on a vault without stored data
Started ==
    /\ loaded = TRUE
    /\ goals = <<>>
    /\ tasks = <<>>
    /\ saves = <<>>
    /\ disk = Null

Answer(op, start, end, fs, result) ==
    [op |-> op, start |-> start, end |-> end, vault |-> fs, result |-> result]

\* await this.getNotesForRange(moment(start), moment(end))
getNotesForRangeCalled(start, end) ==
    /\ answer' = Answer("getNotesForRange", start, end, files,
                        getNotesForRange(files, bases, start, end))
    /\ UNCHANGED <<pluginVars, hostVars, viewVars, envVars, calls, errors>>

\* this.getLastModified()
getLastModifiedCalled ==
    /\ files' \in FilesAfterSort(files)
    /\ answer' = Answer("getLastModified", 0, 0, files, <<getLastModified(files)>>)
    /\ UNCHANGED <<pluginVars, hostVars, viewVars, now, bases, vault, feeds, calls, errors>>

\* await this.getEventsForRange(moment(start), moment(end))
getEventsForRangeCalled(start, end) ==
    /\ answer' = Answer("getEventsForRange", start, end, <<>>,
                        getEventsForRange(feeds, settings.calendarUrls.v, start, end))
    /\ UNCHANGED <<pluginVars, hostVars, viewVars, envVars, calls, errors>>

\* await this.plugin.calculateDailyStreak()
calculateDailyStreakCalled ==
    /\ answer' = Answer("calculateDailyStreak", now, now, <<>>,
                        <<calculateDailyStreak(vault, settings, now)>>)
    /\ UNCHANGED <<pluginVars, hostVars, viewVars, envVars, calls, errors>>

\* midnight, or any later moment, passes
clockAdvances(t) ==
    /\ t > now
    /\ now' = t
    /\ UNCHANGED <<pluginVars, hostVars, viewVars, files, bases, vault, feeds, callVars>>

(***************************************************************************)
(* SpecNotes: getNotesForRange and getLastModified on any small vault,     *)
(* with the Bases search absent, throwing or answering.                    *)
(***************************************************************************)
Times == 0..MaxTime
NoteNames == <<"n1", "n2", "n3", "n4">>

\* the lists of n files named names[1..n], with any creation time
FilesNamed(names, n, mtimes) ==
    {[i \in 1..n |-> File(names[i], c[i], m[i])] :
        c \in [1..n -> Times], m \in [1..n -> mtimes]}

NoteLists == UNION {FilesNamed(NoteNames, n, 0..1) : n \in 0..MaxFiles}
OtherLists == UNION {FilesNamed(<<"img">>, n, {0}) : n \in 0..1}

InitNotes ==
    /\ Started /\ settings = LoadedSettings(Null) /\ NoView /\ NoCalls
    /\ now = 0
    /\ files \in NoteLists
    /\ bases \in {Bases(mode, others) : mode \in BasesModes, others \in OtherLists}
    /\ vault = {}
    /\ feeds = <<>>

NextNotes ==
    \/ \E start \in Times, end \in Times : start <= end /\ getNotesForRangeCalled(start, end)
    \/ getLastModifiedCalled

SpecNotes == InitNotes /\ [][NextNotes]_vars

(***************************************************************************)
(* SpecEvents: getEventsForRange on any text of the calendar URLs setting, *)
(* with feeds that answer and feeds that fail.                             *)
(***************************************************************************)
UrlTexts == StringsOver({"A", "B", ",", " "}, MaxUrlLen)

FeedData ==
    {<<>>,
     <<VEvent("VEVENT", Str(<<"x">>), 1), VEvent("VTIMEZONE", Undefined, 1),
       VEvent("VEVENT", Undefined, 0)>>,
     <<VEvent("VEVENT", Str(<<"y">>), MaxTime), VEvent("VEVENT", Str(<<"x">>), 1),
       VEvent("VEVENT", Str(<<"z">>), 0)>>}

Fetches == {[ok |-> FALSE, data |-> <<>>]} \cup {[ok |-> TRUE, data |-> d] : d \in FeedData}

InitEvents ==
    /\ Started /\ NoView /\ NoCalls
    /\ \E u \in UrlTexts : settings = [LoadedSettings(Null) EXCEPT !.calendarUrls = Str(u)]
    /\ now = 0
    /\ files = <<>>
    /\ bases = Bases("absent", <<>>)
    /\ vault = {}
    /\ feeds \in [{<<"A">>, <<"B">>} -> Fetches]

NextEvents ==
    \E start \in Times, end \in Times : getEventsForRangeCalled(start, end)

SpecEvents == InitEvents /\ [][NextEvents]_vars

(***************************************************************************)
(* SpecDaily: createDailyNote called while earlier calls await the host,   *)
(* on a vault with or without the daily folder, and the user editing the   *)
(* notes.                                                                  *)
(***************************************************************************)
RoomToCall(n) == Len(calls) < n

DailyFolders == {<<"Daily">>, <<"J", "/", "D">>}

InitDaily ==
    /\ Started /\ NoView /\ NoCalls
    /\ \E d \in DailyFolders : settings = [LoadedSettings(Null) EXCEPT !.dailyNoteFolder = Str(d)]
    /\ now = 0
    /\ files = <<>>
    /\ bases = Bases("absent", <<>>)
    /\ vault \in {{}, {Entry(<<"Daily">>, TRUE, <<>>)}, {Entry(<<"J">>, TRUE, <<>>)}}
    /\ feeds = <<>>

NextDaily ==
    \/ \E day \in InputDays : RoomToCall(MaxCalls) /\ createDailyNote(day * DayLen)
    \/ \E k \in 1..MaxCalls, outcome \in Outcomes : createFolderResolved(k, outcome)
    \/ \E k \in 1..MaxCalls, outcome \in Outcomes : createResolved(k, outcome)
    \/ \E k \in 1..MaxCalls : openFileResolved(k)
    \/ \E e \in vault : modifyNote(e)

SpecDaily == InitDaily /\ [][NextDaily]_vars

(***************************************************************************)
(* SpecStreak: calculateDailyStreak on any set of daily notes, with notes  *)
(* of the same names in another folder, at any time of any day.            *)
(***************************************************************************)
Days == 0..MaxDays
Moments == 0..((MaxDays + 1) * DayLen - 1)

\* the folders, and notes named after the days ds in folder
DailyNotes(folder, ds) == {Entry(NotePath(folder, Numeral(d)), FALSE, <<"#">>) : d \in ds}

InitStreak ==
    /\ Started /\ NoView /\ NoCalls
    /\ \E d \in {<<"Daily">>, <<"Journal">>} :
          settings = [LoadedSettings(Null) EXCEPT !.dailyNoteFolder = Str(d)]
    /\ now \in Moments
    /\ files = <<>>
    /\ bases = Bases("absent", <<>>)
    /\ \E ds \in SUBSET Days, other \in SUBSET {MaxDays} :
          vault = {Entry(<<"Daily">>, TRUE, <<>>), Entry(<<"Journal">>, TRUE, <<>>)}
                    \cup DailyNotes(<<"Daily">>, ds) \cup DailyNotes(<<"Journal">>, other)
    /\ feeds = <<>>

NextStreak ==
    \/ calculateDailyStreakCalled
    \/ \E t \in Moments : clockAdvances(t)

SpecStreak == InitStreak /\ [][NextStreak]_vars

(***************************************************************************)
(* Loading.                                                                *)
(***************************************************************************)
\* the stored settings carry a singular noteFolder and no plural noteFolders
LegacyBlob(data) ==
    LET s == DataField(data, "settings")
    IN  s.t = "object" /\ Truthy(s.v.noteFolder) /\ s.v.noteFolders = Undefined

\* C1: loading a blob whose settings carry the singular noteFolder and no
\* noteFolders yields noteFolders equal to the one-element list of that value.
C1_LegacyMigration ==
    [][(loadSettings /\ LegacyBlob(disk))
        => settings'.noteFolders = Arr(<<DataField(disk, "settings").v.noteFolder.v>>)]_vars

\* C2: after loadSettings, settings.noteFolders is a list and is not empty,
\* whatever blob was stored.
C2_NoteFoldersNeverEmpty ==
    [][loadSettings
        => (settings'.noteFolders.t = "array" /\ Len(settings'.noteFolders.v) > 0)]_vars

(***************************************************************************)
(* The goal and task lists.                                                *)
(***************************************************************************)
\* the prompt was cancelled, or the text is empty once trimmed
Blank(text) == text = Null \/ Trim(text.v) = <<>>

AddContract(text, list, listAfter) ==
    IF Blank(text)
    THEN listAfter = list /\ saves' = saves /\ disk' = disk
    ELSE listAfter = Append(list, Goal(text.v, FALSE))

\* C3: add with a cancelled prompt or a text that is empty or all white space
\* leaves the list unchanged and persists nothing; any other text appends
\* exactly {text, done: false} after the entries already there.
C3_AddContract ==
    [][\A text \in PromptTexts :
          /\ addGoal(text) => AddContract(text, goals, goals')
          /\ addTask(text) => AddContract(text, tasks, tasks')]_vars

DeleteContract(index, list, listAfter) ==
    IF index \in 0..(Len(list) - 1)
    THEN listAfter = Without(list, index + 1)
    ELSE listAfter = list

\* C4: delete(index) removes exactly the entry at an index inside the list and
\* keeps the others in order; for an index outside the list, too large or
\* negative, it leaves the list unchanged.
C4_DeleteContract ==
    [][\A index \in Indices :
          /\ deleteGoal(index) => DeleteContract(index, goals, goals')
          /\ deleteTask(index) => DeleteContract(index, tasks, tasks')]_vars

ToggleContract(index, list, listAfter) ==
    IF index \in 0..(Len(list) - 1)
    THEN /\ Len(listAfter) = Len(list)
         /\ \A j \in 1..Len(list) :
               /\ listAfter[j].text = list[j].text
               /\ listAfter[j].done = (IF j = index + 1 THEN ~list[j].done ELSE list[j].done)
    ELSE listAfter = list /\ saves' = saves /\ disk' = disk

\* C5: toggle(index) flips the done flag of the entry at an index inside the
\* list and of no other entry, keeps every text, the length and the order, and
\* leaves the other list alone; for an index outside the list it changes
\* nothing and persists nothing.
C5_ToggleContract ==
    [][\A index \in Indices :
          /\ toggleGoal(index) => (ToggleContract(index, goals, goals') /\ tasks' = tasks)
          /\ toggleTask(index) => (ToggleContract(index, tasks, tasks') /\ goals' = goals)]_vars

\* a toggle has acted: the second of two goals is done and the first is not,
\* and the request that persists it is in flight
C5_Toggled ==
    /\ Len(goals) = 2
    /\ ~goals[1].done
    /\ goals[2].done
    /\ saves # <<>>
    /\ saves[Len(saves)].blob = PluginData(settings, goals, tasks)

(***************************************************************************)
(* The queries.                                                            *)
(***************************************************************************)
\* the notes of fs created within [start, end]
CreatedIn(fs, start, end) ==
    {fs[i] : i \in {j \in 1..Len(fs) : start <= fs[j].ctime /\ fs[j].ctime <= end}}

\* C6: getNotesForRange returns exactly the notes of the vault whose creation
\* time lies in [start, end], each once, whichever path ran: Bases absent,
\* throwing, answering with nothing or answering with files.
C6_RangeQuery ==
    answer.op = "getNotesForRange" =>
        /\ {answer.result[i] : i \in 1..Len(answer.result)}
                = CreatedIn(answer.vault, answer.start, answer.end)
        /\ Len(answer.result) = Cardinality(CreatedIn(answer.vault, answer.start, answer.end))

\* the entries the feeds of the configured urls hold: <<u, j>> is entry j of
\* the feed of the u-th url
FeedEntries(urls) ==
    {p \in (1..Len(urls)) \X (1..3) :
        /\ urls[p[1]] \in DOMAIN feeds
        /\ feeds[urls[p[1]]].ok
        /\ p[2] <= Len(feeds[urls[p[1]]].data)}

EntryOf(urls, p) == feeds[urls[p[1]]].data[p[2]]

EventOf(ev) ==
    [summary |-> IF ev.summary.t = "string" THEN ev.summary.v ELSE <<>>, start |-> ev.start]

\* C7: getEventsForRange returns, sorted ascending by start, exactly the VEVENT
\* entries with start in [start, end], both ends included, of the feeds that
\* were fetched; a url whose fetch fails adds nothing and the urls after it
\* are still fetched.
C7_EventAggregation ==
    answer.op = "getEventsForRange" =>
        LET urls == SplitList(settings.calendarUrls.v)
            due == {p \in FeedEntries(urls) :
                       /\ EntryOf(urls, p).type = "VEVENT"
                       /\ answer.start <= EntryOf(urls, p).start
                       /\ EntryOf(urls, p).start <= answer.end}
            got == answer.result
        IN  /\ Len(got) = Cardinality(due)
            /\ \A p \in due :
                   Cardinality({i \in 1..Len(got) : got[i] = EventOf(EntryOf(urls, p))})
                       = Cardinality({q \in due : EventOf(EntryOf(urls, q)) = EventOf(EntryOf(urls, p))})
            /\ \A i \in 1..Len(got) : \A j \in i..Len(got) : got[i].start <= got[j].start

\* a fetch failed, a later url was fetched, and the events came out of feed order
C7_LaterFeedAfterFailure ==
    /\ answer.op = "getEventsForRange"
    /\ LET urls == SplitList(settings.calendarUrls.v)
       IN  /\ Len(urls) = 2
           /\ urls[1] \notin DOMAIN feeds \/ ~feeds[urls[1]].ok
           /\ urls[2] \in DOMAIN feeds /\ feeds[urls[2]].ok
           /\ Len(feeds[urls[2]].data) = 3
    /\ Len(answer.result) = 3
    /\ answer.start = 0
    /\ answer.end = MaxTime

(***************************************************************************)
(* Daily notes.                                                            *)
(***************************************************************************)
DataAt(v, path) == {e.data : e \in {x \in v : x.path = path}}

\* C8: calls of createDailyNote for one date, one after the other or
\* overlapping at their awaits, raise no error, never change the content of a
\* note that exists, and each leaves exactly one note for its date.
C8_IdempotentDailyNote ==
    [][/\ errors' = errors
       /\ (\A e \in vault : ~modifyNote(e))
            => \A e \in vault : DataAt(vault', e.path) = {e.data}
       /\ \A k \in 1..Len(calls) :
            openFileResolved(k) => Cardinality({e \in vault' : e.path = calls[k].path}) = 1]_vars

\* C12: getLastModified returns null for an empty note set, and for a non-empty
\* one the modification time of a note that no other note's exceeds.
C12_LastModified ==
    answer.op = "getLastModified" =>
        LET notes == answer.vault
            last == answer.result[1]
        IN  IF Len(notes) = 0 THEN last = Null
            ELSE /\ last.t = "number"
                 /\ \E i \in 1..Len(notes) : notes[i].mtime = last.v
                 /\ \A i \in 1..Len(notes) : notes[i].mtime <= last.v

\* the note modified last is not the first of the list
C12_LatestNotFirst ==
    /\ answer.op = "getLastModified"
    /\ Len(answer.vault) >= 2
    /\ answer.vault[1].mtime < answer.vault[2].mtime
    /\ answer.result[1].v = answer.vault[2].mtime

\* C13: neither getLastModified nor getNotesForRange changes the contents or the
\* order of the note list the host supplied, so that a range query made after
\* getLastModified lists its notes in the host's order.
C13_QueriesLeaveNotes ==
    [][(getLastModifiedCalled
            \/ \E start \in Times, end \in Times : getNotesForRangeCalled(start, end))
        => files' = files]_vars

\* the daily note folder holds the note named after the day d days before the
\* day of the call
NoteOfDayBack(d) ==
    \E e \in vault :
        e.path = settings.dailyNoteFolder.v \o <<"/">>
                    \o Numeral((answer.start \div DayLen) - d) \o <<".md">>

\* C11: calculateDailyStreak returns 0 when today's daily note is absent, and
\* k when the notes of the days 0..k-1 back from today all exist in the daily
\* note folder and the note of day k does not.
C11_DailyStreak ==
    answer.op = "calculateDailyStreak" =>
        LET k == answer.result[1]
        IN  /\ k \in 0..(MaxDays + 1)
            /\ \A d \in 0..(k - 1) : NoteOfDayBack(d)
            /\ ~NoteOfDayBack(k)
            /\ ~NoteOfDayBack(0) => k = 0

\* a streak of two days that ends at a gap, counted in the second half of a day
C11_StreakOfTwo ==
    /\ answer.op = "calculateDailyStreak"
    /\ answer.result[1] = 2
    /\ answer.start % DayLen = 1
    /\ \E d \in 3..MaxDays : NoteOfDayBack(d)

(***************************************************************************)
(* Rendering.                                                              *)
(***************************************************************************)
\* render() call k is resumed from one of its awaits
Resumed(k) ==
    renderToday(k) \/ renderWeek(k) \/ renderMonth(k) \/ renderGoals(k) \/ renderEvents(k)

\* C9: when render() calls overlap, the view shows the grid of the call that
\* started last and no other, and a call that started earlier, resumed after a
\* newer one has started, neither overwrites nor adds to what is shown.
C9_RenderOrdering ==
    [][/\ renders' # <<>> => container' = <<Len(renders')>>
       /\ \A k \in 1..(Len(renders) - 1) : Resumed(k) => Displayed' = Displayed]_vars

\* an earlier call is still suspended, having been resumed and about to end,
\* while the call that started after it has ended
C9_StaleRenderPending ==
    /\ Len(renders) >= 2
    /\ renders[Len(renders)].pc = "done"
    /\ renders[1].pc = "events"
    /\ container = <<Len(renders)>>

\* the rows of a section that are on show, each with the index its checkbox
\* and its remove button close over
ShownRows(section) ==
    UNION {{renders[container[c]].grid[section][r] :
                r \in 1..Len(renders[container[c]].grid[section])} :
           c \in 1..Len(container)}

\* the index of row designates, in list, the item the row was rendered for
Designates(list, row) == row.i \in 0..(Len(list) - 1) /\ list[row.i + 1].text = row.text

\* C14: when a checkbox or a remove button rendered for an item is activated,
\* the index it passes to toggleGoal / deleteGoal (toggleTask / deleteTask)
\* designates that item in the list as it is then, also after another change
\* of the list whose saveData and render have not completed.
C14_NoStaleIndex ==
    [][/\ \A row \in ShownRows("goals") :
            (toggleGoal(row.i) \/ deleteGoal(row.i)) => Designates(goals, row)
       /\ \A row \in ShownRows("tasks") :
            (toggleTask(row.i) \/ deleteTask(row.i)) => Designates(tasks, row)]_vars

(***************************************************************************)
(* Persistence.                                                            *)
(***************************************************************************)
\* C10: a step that changes the goal or the task list makes, in the same step,
\* the saveData request whose blob holds the changed lists, and starts no
\* render; the view is refreshed when that request resolves; and a render that
\* reads the lists while requests are in flight shows the lists as changed.
C10_PersistenceOrdering ==
    [][/\ (loaded /\ (goals' # goals \/ tasks' # tasks))
            => /\ saves' = Append(saves, [blob |-> PluginData(settings, goals', tasks'),
                                          cont |-> "refreshView"])
               /\ UNCHANGED <<renders, container, disk>>
       /\ \A i \in 1..Len(saves) :
            (saveDataResolved(i) /\ saves[i].cont = "refreshView" /\ viewOpen)
                => /\ disk' = saves[i].blob
                   /\ renders' # <<>>
                   /\ renders'[Len(renders')].pc = "today"
                   /\ renders'[Len(renders')].grid.n = 0
                   /\ container' = <<Len(renders')>>
       /\ \A k \in 1..Len(renders) :
            renderGoals(k) => /\ renders'[k].grid.goals = Rows(goals)
                              /\ renders'[k].grid.tasks = Rows(tasks)]_vars

\* a goal has been added, the request that persists it is in flight, the blob
\* on disk has one goal, and a grid already shows both goals
C10_ShownBeforePersisted ==
    /\ Len(goals) = 2
    /\ Len(saves) = 1
    /\ saves[1].blob = PluginData(settings, goals, tasks)
    /\ Len(DataField(disk, "goals").v) = 1
    /\ \E k \in 1..Len(renders) : renders[k].grid.goals = Rows(goals)

====
